---- MODULE Spec2Model ----
(***************************************************************************)
(* Model of src/main.py: the FastAPI application "Text Summarization &     *)
(* Vectorization API".  Every endpoint is a synchronous handler that calls *)
(* one or two library functions and turns the result into a response.      *)
(* FastAPI runs synchronous handlers on a thread pool, so several requests *)
(* can be in flight at once; a handler blocks while a library call is      *)
(* outstanding.  A request is modelled as a small process: it arrives,     *)
(* reaches a call, the call returns or raises, the handler runs on to the  *)
(* next call or to its return / raise statement.                           *)
(*                                                                         *)
(* The library functions are the environment: the value a call returns (or *)
(* the exception it raises) is chosen from the set the function's operator *)
(* gives.  Texts are sequences of words; numbers are integers.             *)
(***************************************************************************)
EXTENDS Integers, Sequences, FiniteSets, TLC

\* ------------------------------------------------------------------ bounds
NumReqs == 2
MaxLen == 1
BertDim == 2

Reqs == 1..NumReqs
Words == {"a", "b"}
WordOrder == <<"a", "b">>

Texts == UNION {[1..n -> Words] : n \in 0..MaxLen}

\* ------------------------------------------------------------ Python values
\* Every value is a record whose field names tell its type.
NoneV == [none |-> TRUE]
Unset == [unset |-> TRUE]
Str(s) == [str |-> s]
List(s) == [list |-> s]
Tuple(s) == [tuple |-> s]
Exc(name) == [exc |-> name]

\* Outcome of a library call: it returned a value or raised an exception.
Returned(v) == [raised |-> FALSE, val |-> v]
Raised(name) == [raised |-> TRUE, val |-> Exc(name)]
Pending == [raised |-> FALSE, val |-> [pending |-> TRUE]]

LibErrors == {"RuntimeError", "ValueError"}
StoreErrors == {"FileNotFoundError", "UnpicklingError"}

Range(s) == {s[i] : i \in DOMAIN s}

RECURSIVE Count(_, _)
Count(w, text) ==
    IF text = <<>> THEN 0
    ELSE (IF Head(text) = w THEN 1 ELSE 0) + Count(w, Tail(text))

\* As Falsy, had the handlers tested `summary is None`.
FalsyNoneOnly(v) == v = NoneV

\* Python truthiness of a summarizer result, as tested by `not summary`:
\* None and the empty string are falsy, every other string is truthy.
Falsy(v) == v = NoneV \/ ("str" \in DOMAIN v /\ Len(v.str) = 0)

\* `shap_values is None`.
IsNone(v) == v = NoneV

\* ------------------------------------------------------------ array values
\* A dense numpy array: a shape and a row-major buffer.
NdArray(shape, flat) == [shape |-> shape, flat |-> flat]

\* ndarray.tolist(): nested Python lists, one level per dimension.
ToList(a) ==
    IF Len(a.shape) = 1 THEN [i \in 1..a.shape[1] |-> a.flat[i]]
    ELSE [i \in 1..a.shape[1] |->
            [j \in 1..a.shape[2] |-> a.flat[(i - 1) * a.shape[2] + j]]]

\* A scipy sparse matrix: a shape and the stored (non-zero) entries.
Sparse(shape, nz) == [shape |-> shape, nz |-> nz]

\* sparse.toarray(): the dense matrix, zero where nothing is stored.
ToArray(sp) ==
    NdArray(sp.shape,
            [k \in 1..(sp.shape[1] * sp.shape[2]) |->
                IF k \in DOMAIN sp.nz THEN sp.nz[k] ELSE 0])

\* a[0] of a two-dimensional array: its first row.
Row0(a) == NdArray(<<a.shape[2]>>, [j \in 1..a.shape[2] |-> a.flat[j]])

\* ------------------------------------------------- library functions (environment)
\* Each operator gives the outcomes a call can have: the values it can return
\* and the exceptions it can raise.

Raises(errors) == {Raised(e) : e \in errors}

\* data.text_cleaner.clean_text: a string no longer than its input.
clean_text(text) ==
    {Returned(Str(s)) : s \in {t \in Texts : Len(t) <= Len(text)}}
        \cup Raises(LibErrors)

\* llm.lsa_summarizer.generate_lsa_summary: a string or None.
generate_lsa_summary(text) ==
    {Returned(NoneV)} \cup {Returned(Str(s)) : s \in Texts} \cup Raises(LibErrors)

\* llm.ollama_client.generate_llm_summary: a string or None.
generate_llm_summary(text) ==
    {Returned(NoneV)} \cup {Returned(Str(s)) : s \in Texts} \cup Raises(LibErrors)

\* The vocabulary fitted on a corpus: its distinct words, in sorted order.
Vocabulary(batch) ==
    SelectSeq(WordOrder, LAMBDA w : \E i \in DOMAIN batch : w \in Range(batch[i]))

\* vectorization.vectorizers.vectorize_tfidf: fits a vectorizer on the batch
\* and returns (sparse matrix, vectorizer); one row per text, one column per
\* vocabulary word, the weight abstracted to the word's count in the text.
\* Deterministic in the batch.
TfidfMatrix(batch) ==
    LET vocab == Vocabulary(batch)
        m == Len(vocab)
        cells == {k \in 1..(Len(batch) * m) :
                    Count(vocab[((k - 1) % m) + 1], batch[((k - 1) \div m) + 1]) > 0}
    IN Sparse(<<Len(batch), m>>,
              [k \in cells |-> Count(vocab[((k - 1) % m) + 1], batch[((k - 1) \div m) + 1])])

vectorize_tfidf(batch) ==
    {Returned(Tuple(<<TfidfMatrix(batch), [obj |-> "vectorizer"]>>))} \cup Raises(LibErrors)

\* The dense embedding of one text: BertDim numbers, a function of the text.
BertRow(text) == [i \in 1..BertDim |-> (i * Len(text) + Count("a", text)) % 3]

\* As vectorize_bert, were the encoder not deterministic (dropout left on).
vectorize_bertUnseeded(batch) ==
    {Returned(Tuple(<<List([i \in DOMAIN batch |-> [j \in 1..BertDim |-> (BertRow(batch[i])[j] + d) % 3]]),
                      [obj |-> "model"]>>)) : d \in {0, 1}}
        \cup Raises(LibErrors)

\* vectorization.vectorizers.vectorize_bert: returns (list of embeddings,
\* model); one embedding per text.  Deterministic in the batch.
vectorize_bert(batch) ==
    {Returned(Tuple(<<List([i \in DOMAIN batch |-> BertRow(batch[i])]), [obj |-> "model"]>>))}
        \cup Raises(LibErrors)

\* llm.summarize_and_vectorize.summarize_and_vectorize: a composite object
\* holding at least a summary and an embedding vector.
summarize_and_vectorize(text) ==
    {Returned([summary |-> Str(s), vector |-> BertRow(s)]) : s \in Texts}
        \cup Raises(LibErrors)

\* An object unpickled by the load that request r made.
Obj(kind, r) == [obj |-> kind, load |-> r]

\* models.trainers.load_saved_model: reads the persisted artifact and returns
\* the triple (model, vectorizer, class_names), freshly deserialised; raises
\* when the artifact is missing or malformed.
load_saved_model(r) ==
    {Returned(Tuple(<<Obj("model", r), Obj("vectorizer", r), Obj("class_names", r)>>))}
        \cup Raises(StoreErrors)

\* xai.lime_explainer.explain_prediction_lime: ranked (feature, weight) pairs.
explain_prediction_lime(text, model, vectorizer, class_names) ==
    {Returned(List(<<>>))}
        \cup {Returned(List(<<<<w, 1>>>>)) : w \in Range(text)}
        \cup Raises(LibErrors)

\* A shap Explanation for a batch: .values, .base_values and .data are arrays
\* whose first dimension is the batch; .values and .data have one column per
\* feature (here one per word of WordOrder), .base_values one number per text.
Explanation(batch, v) ==
    LET n == Len(batch)
        m == Len(WordOrder)
    IN [values |-> NdArray(<<n, m>>, [k \in 1..(n * m) |-> v]),
        base_values |-> NdArray(<<n>>, [k \in 1..n |-> 0]),
        data |-> NdArray(<<n, m>>,
                         [k \in 1..(n * m) |->
                            Count(WordOrder[((k - 1) % m) + 1], batch[((k - 1) \div m) + 1])])]

\* xai.shap_explainer.explain_prediction_shap: an Explanation, or None when
\* no explanation can be computed.
explain_prediction_shap(batch, model, vectorizer) ==
    {Returned(NoneV)}
        \cup {Returned(Explanation(batch, v)) : v \in {0, 1}}
        \cup Raises(LibErrors)

\* ---------------------------------------------------------------- responses
NoResp == [kind |-> "none"]

\* A handler returned `body`: 200 with the body serialised.
Ok(body) == [kind |-> "ok", status |-> 200, body |-> body]

\* A handler raised fastapi.HTTPException(status_code, detail).
HTTPException(status_code, detail) ==
    [kind |-> "http", status |-> status_code, detail |-> detail]

\* An exception no handler catches: the server answers 500 Internal Server
\* Error and the exception surfaces in the server.
Unhandled(e) == [kind |-> "unhandled", status |-> 500, exc |-> e]

\* As Propagate, had the handlers wrapped the call in
\* `except Exception as e: return {"error": str(e)}`.
PropagateAsBody(e) == Ok([error |-> e])

\* As Propagate, had the handlers wrapped the call in
\* `except Exception as e: raise HTTPException(500, str(e))`.
PropagateAsHttp(e) == HTTPException(500, e.exc)

\* What a handler does with an exception raised by a library call: there is no
\* try/except in main.py, so it propagates.
Propagate(e) == Unhandled(e)

RootResponse == Ok([message |-> "Text Processing API is running"])

PreprocessResponse(cleaned) == Ok([cleaned_text |-> cleaned])

LsaResponse(summary) ==
    IF Falsy(summary) THEN HTTPException(400, "LSA summarization failed.")
    ELSE Ok([lsa_summary |-> summary])

LlmResponse(summary) ==
    IF Falsy(summary) THEN HTTPException(400, "LLM summarization failed.")
    ELSE Ok([llm_summary |-> summary])

\* vectors, _ = ret; vectors.toarray()[0].tolist()
TfidfResponse(ret) == Ok([tfidf_vector |-> ToList(Row0(ToArray(ret.tuple[1])))])

\* vectors, _ = ret; vectors[0]
BertResponse(ret) == Ok([bert_vector |-> ret.tuple[1].list[1]])

\* As SummarizeAndVectorizeResponse, had the handler returned the summary only.
SummarizeAndVectorizeResponsePartial(result) == Ok([summary |-> result.summary])

SummarizeAndVectorizeResponse(result) == Ok(result)

LimeResponse(explanation) == Ok([lime_explanation |-> explanation.list])

\* As ShapResponse, with the status code of the summarization handlers.
ShapResponse400(shap_values) ==
    IF IsNone(shap_values) THEN HTTPException(400, "SHAP explanation failed.")
    ELSE Ok([shap_values |-> ToList(shap_values.values),
             base_values |-> ToList(shap_values.base_values),
             data |-> ToList(shap_values.data)])

\* As ShapResponse, had the handler taken the attribution of the first text,
\* `shap_values.values[0].tolist()`.
ShapResponseFirstText(shap_values) ==
    IF IsNone(shap_values) THEN HTTPException(500, "SHAP explanation failed.")
    ELSE Ok([shap_values |-> ToList(Row0(shap_values.values)),
             base_values |-> ToList(shap_values.base_values),
             data |-> ToList(shap_values.data)])

ShapResponse(shap_values) ==
    IF IsNone(shap_values) THEN HTTPException(500, "SHAP explanation failed.")
    ELSE Ok([shap_values |-> ToList(shap_values.values),
             base_values |-> ToList(shap_values.base_values),
             data |-> ToList(shap_values.data)])

\* -------------------------------------------------------------------- state
VARIABLES
    req,      \* req[r]: the endpoint and text of request r and where its handler is
    locals,   \* locals[r]: the local variables of the handler invocation serving
              \* request r; locals[0]: the module-level variables of main.py
    resp,     \* resp[r]: the response request r produced, NoResp until then
    calls     \* calls[r]: the library calls request r made, with their outcomes

vars == <<req, locals, resp, calls>>

Endpoints ==
    {"/", "/preprocess", "/summarize/lsa", "/summarize/llm", "/vectorize/tfidf",
     "/vectorize/bert", "/summarize-and-vectorize", "/xai/lime", "/xai/shap"}

\* Frame 0 is the module namespace, frame r the invocation serving request r.
Frames == 0..NumReqs

NoLocals ==
    [value |-> Unset, model |-> Unset, vectorizer |-> Unset, class_names |-> Unset]

Init ==
    /\ req = [r \in Reqs |-> [ep |-> "none", text |-> <<>>, pc |-> "idle"]]
    /\ locals = [f \in Frames |-> NoLocals]
    /\ resp = [r \in Reqs |-> NoResp]
    /\ calls = [r \in Reqs |-> <<>>]

\* As Frame, had explain_with_lime and explain_with_shap kept the loaded model
\* in module-level variables (`global model, vectorizer, class_names`).
FrameModelGlobal(r) == IF req[r].ep \in {"/xai/lime", "/xai/shap"} THEN 0 ELSE r

\* As Frame, had summarize_lsa and summarize_llm declared `global summary`.
FrameSummaryGlobal(r) == IF req[r].ep \in {"/summarize/lsa", "/summarize/llm"} THEN 0 ELSE r

\* The names a handler assigns (summary, vectors, model, ...) are locals of its
\* own invocation: main.py has no `global` statement.
Frame(r) == r

At(r, ep, pc) == req[r].ep = ep /\ req[r].pc = pc

Goto(r, pc) == req' = [req EXCEPT ![r].pc = pc]

\* A request arrives with a valid body {"text": text} and its handler is entered.
Arrive(r, ep, text) ==
    /\ req[r].pc = "idle"
    /\ req' = [req EXCEPT ![r] = [ep |-> ep, text |-> text, pc |-> "entry"]]
    /\ UNCHANGED <<locals, resp, calls>>

\* As Invoke, had the handler handed the call to a background task and
\* answered at once.
InvokeDetached(r, fn, args, pc) ==
    /\ calls' = [calls EXCEPT ![r] = Append(@, [fn |-> fn, args |-> args, out |-> Pending])]
    /\ resp' = [resp EXCEPT ![r] = Ok([status |-> "accepted"])]
    /\ req' = [req EXCEPT ![r].pc = "done"]
    /\ UNCHANGED locals

\* The handler reaches a call of library function fn and blocks in it: the
\* handlers are plain `def`s, nothing is awaited, spawned or given a timeout.
Invoke(r, fn, args, pc) ==
    /\ calls' = [calls EXCEPT ![r] = Append(@, [fn |-> fn, args |-> args, out |-> Pending])]
    /\ Goto(r, pc)
    /\ UNCHANGED <<locals, resp>>

\* The outstanding call of request r ends with outcome out: a raised exception
\* ends the request, a returned value is bound by `bind` and the handler goes on.
Complete(r, out, bind, pc) ==
    /\ calls' = [calls EXCEPT ![r][Len(calls[r])].out = out]
    /\ IF out.raised
       THEN /\ resp' = [resp EXCEPT ![r] = Propagate(out.val)]
            /\ Goto(r, "done")
            /\ UNCHANGED locals
       ELSE /\ locals' = [locals EXCEPT ![Frame(r)] = bind]
            /\ Goto(r, pc)
            /\ UNCHANGED resp

\* The handler returns or raises: the request is answered.
Respond(r, response) ==
    /\ resp' = [resp EXCEPT ![r] = response]
    /\ Goto(r, "done")
    /\ UNCHANGED <<locals, calls>>

L(r) == locals[Frame(r)]

\* ----------------------------------------------------------------- handlers
root(r) ==
    /\ At(r, "/", "entry")
    /\ Respond(r, RootResponse)

preprocess_text(r) ==
    \/ /\ At(r, "/preprocess", "entry")
       /\ Invoke(r, "clean_text", <<req[r].text>>, "call")
    \/ /\ At(r, "/preprocess", "call")
       /\ \E out \in clean_text(req[r].text) :
            Complete(r, out, [L(r) EXCEPT !.value = out.val], "ret")
    \/ /\ At(r, "/preprocess", "ret")
       /\ Respond(r, PreprocessResponse(L(r).value))

summarize_lsa(r) ==
    \/ /\ At(r, "/summarize/lsa", "entry")
       /\ Invoke(r, "generate_lsa_summary", <<req[r].text>>, "call")
    \/ /\ At(r, "/summarize/lsa", "call")
       /\ \E out \in generate_lsa_summary(req[r].text) :
            Complete(r, out, [L(r) EXCEPT !.value = out.val], "ret")
    \/ /\ At(r, "/summarize/lsa", "ret")
       /\ Respond(r, LsaResponse(L(r).value))

summarize_llm(r) ==
    \/ /\ At(r, "/summarize/llm", "entry")
       /\ Invoke(r, "generate_llm_summary", <<req[r].text>>, "call")
    \/ /\ At(r, "/summarize/llm", "call")
       /\ \E out \in generate_llm_summary(req[r].text) :
            Complete(r, out, [L(r) EXCEPT !.value = out.val], "ret")
    \/ /\ At(r, "/summarize/llm", "ret")
       /\ Respond(r, LlmResponse(L(r).value))

vectorize_tfidf_endpoint(r) ==
    \/ /\ At(r, "/vectorize/tfidf", "entry")
       /\ Invoke(r, "vectorize_tfidf", <<<<req[r].text>>>>, "call")
    \/ /\ At(r, "/vectorize/tfidf", "call")
       /\ \E out \in vectorize_tfidf(<<req[r].text>>) :
            Complete(r, out, [L(r) EXCEPT !.value = out.val], "ret")
    \/ /\ At(r, "/vectorize/tfidf", "ret")
       /\ Respond(r, TfidfResponse(L(r).value))

vectorize_bert_endpoint(r) ==
    \/ /\ At(r, "/vectorize/bert", "entry")
       /\ Invoke(r, "vectorize_bert", <<<<req[r].text>>>>, "call")
    \/ /\ At(r, "/vectorize/bert", "call")
       /\ \E out \in vectorize_bert(<<req[r].text>>) :
            Complete(r, out, [L(r) EXCEPT !.value = out.val], "ret")
    \/ /\ At(r, "/vectorize/bert", "ret")
       /\ Respond(r, BertResponse(L(r).value))

summarize_and_vectorize_endpoint(r) ==
    \/ /\ At(r, "/summarize-and-vectorize", "entry")
       /\ Invoke(r, "summarize_and_vectorize", <<req[r].text>>, "call")
    \/ /\ At(r, "/summarize-and-vectorize", "call")
       /\ \E out \in summarize_and_vectorize(req[r].text) :
            Complete(r, out, [L(r) EXCEPT !.value = out.val], "ret")
    \/ /\ At(r, "/summarize-and-vectorize", "ret")
       /\ Respond(r, SummarizeAndVectorizeResponse(L(r).value))

\* model, vectorizer, class_names = load_saved_model()
BindModel(l, triple) ==
    [l EXCEPT !.model = triple.tuple[1], !.vectorizer = triple.tuple[2],
              !.class_names = triple.tuple[3]]

explain_with_lime(r) ==
    \/ /\ At(r, "/xai/lime", "entry")
       /\ Invoke(r, "load_saved_model", <<>>, "load")
    \/ /\ At(r, "/xai/lime", "load")
       /\ \E out \in load_saved_model(r) :
            Complete(r, out, BindModel(L(r), out.val), "loaded")
    \/ /\ At(r, "/xai/lime", "loaded")
       /\ Invoke(r, "explain_prediction_lime",
                 <<req[r].text, L(r).model, L(r).vectorizer, L(r).class_names>>, "call")
    \/ /\ At(r, "/xai/lime", "call")
       /\ \E out \in explain_prediction_lime(req[r].text, L(r).model,
                                             L(r).vectorizer, L(r).class_names) :
            Complete(r, out, [L(r) EXCEPT !.value = out.val], "ret")
    \/ /\ At(r, "/xai/lime", "ret")
       /\ Respond(r, LimeResponse(L(r).value))

explain_with_shap(r) ==
    \/ /\ At(r, "/xai/shap", "entry")
       /\ Invoke(r, "load_saved_model", <<>>, "load")
    \/ /\ At(r, "/xai/shap", "load")
       /\ \E out \in load_saved_model(r) :
            Complete(r, out, [BindModel(L(r), out.val) EXCEPT !.class_names = Unset], "loaded")
    \/ /\ At(r, "/xai/shap", "loaded")
       /\ Invoke(r, "explain_prediction_shap",
                 <<<<req[r].text>>, L(r).model, L(r).vectorizer>>, "call")
    \/ /\ At(r, "/xai/shap", "call")
       /\ \E out \in explain_prediction_shap(<<req[r].text>>, L(r).model, L(r).vectorizer) :
            Complete(r, out, [L(r) EXCEPT !.value = out.val], "ret")
    \/ /\ At(r, "/xai/shap", "ret")
       /\ Respond(r, ShapResponse(L(r).value))

Handler(r) ==
    \/ root(r)
    \/ preprocess_text(r)
    \/ summarize_lsa(r)
    \/ summarize_llm(r)
    \/ vectorize_tfidf_endpoint(r)
    \/ vectorize_bert_endpoint(r)
    \/ summarize_and_vectorize_endpoint(r)
    \/ explain_with_lime(r)
    \/ explain_with_shap(r)

Next ==
    \/ \E r \in Reqs, ep \in Endpoints, text \in Texts : Arrive(r, ep, text)
    \/ \E r \in Reqs : Handler(r)

Spec == Init /\ [][Next]_vars

\* Every thread of the pool is scheduled, and every library call eventually
\* returns or raises.
FairSpec == Spec /\ \A r \in Reqs : WF_vars(Handler(r))

\* ============================================================== properties

\* C1: on /summarize/lsa and /summarize/llm the response is HTTP 400 exactly
\* when the summarizer returned None or the empty string, and otherwise, when
\* the summarizer returned, it is a success body whose only field
\* (lsa_summary / llm_summary) is the summary returned.
C1_SummaryStatus ==
    \A r \in Reqs :
        (req[r].ep \in {"/summarize/lsa", "/summarize/llm"} /\ req[r].pc = "done") =>
            LET out == calls[r][1].out
                empty == ~out.raised /\ out.val \in {NoneV, Str(<<>>)}
                field == IF req[r].ep = "/summarize/lsa" THEN "lsa_summary" ELSE "llm_summary"
            IN /\ (resp[r].status = 400) <=> empty
               /\ (~out.raised /\ ~empty) =>
                    /\ resp[r].kind = "ok"
                    /\ DOMAIN resp[r].body = {field}
                    /\ resp[r].body[field] = out.val

C1_Witness ==
    \E r, q \in Reqs :
        /\ req[r].ep = "/summarize/lsa" /\ req[r].pc = "done"
        /\ calls[r][1].out = Returned(Str(<<>>)) /\ resp[r].status = 400
        /\ req[q].ep = "/summarize/llm" /\ req[q].pc = "done"
        /\ calls[q][1].out = Returned(Str(<<"a">>)) /\ resp[q].kind = "ok"

\* C2: on /xai/shap the handler raises its HTTP 500 exactly when
\* explain_prediction_shap returned None; that response carries none of the
\* fields shap_values, base_values, data; a non-None result is answered
\* with a success body.
C2_ShapNone500 ==
    \A r \in Reqs :
        (req[r].ep = "/xai/shap" /\ req[r].pc = "done") =>
            LET gotNone == Len(calls[r]) = 2 /\ calls[r][2].out = Returned(NoneV)
                gotValue == Len(calls[r]) = 2 /\ ~calls[r][2].out.raised
                            /\ calls[r][2].out.val # NoneV
            IN /\ gotNone => (resp[r].kind = "http" /\ resp[r].status = 500)
               /\ resp[r].kind = "http" => (gotNone /\ "body" \notin DOMAIN resp[r])
               /\ gotValue => resp[r].kind = "ok"

C2_Witness ==
    \E r, q \in Reqs :
        /\ req[r].ep = "/xai/shap" /\ req[r].pc = "done"
        /\ Len(calls[r]) = 2 /\ calls[r][2].out = Returned(NoneV)
        /\ resp[r].status = 500
        /\ req[q].ep = "/xai/shap" /\ req[q].pc = "done" /\ resp[q].kind = "ok"

\* C3: the model store is never cached.  Every /xai/lime and /xai/shap request
\* that has got past its first statement has made exactly one load_saved_model
\* call, its first call; its explainer call comes after that load has returned,
\* and is handed the very objects that load returned, never those another
\* request loaded.
C3_LoadPerRequest ==
    \A r \in Reqs :
        req[r].ep \in {"/xai/lime", "/xai/shap"} =>
            LET loads == {i \in DOMAIN calls[r] : calls[r][i].fn = "load_saved_model"}
                explains == {i \in DOMAIN calls[r] :
                                calls[r][i].fn \in {"explain_prediction_lime",
                                                    "explain_prediction_shap"}}
            IN /\ loads = (IF req[r].pc = "entry" THEN {} ELSE {1})
               /\ explains \subseteq {2}
               /\ explains # {} =>
                    LET triple == calls[r][1].out.val
                        args == calls[r][2].args
                    IN /\ ~calls[r][1].out.raised
                       /\ "tuple" \in DOMAIN triple
                       /\ args[2] = triple.tuple[1] /\ args[2].load = r
                       /\ args[3] = triple.tuple[2] /\ args[3].load = r
                       /\ req[r].ep = "/xai/lime" =>
                            (args[4] = triple.tuple[3] /\ args[4].load = r)

C3_Witness ==
    \E r, q \in Reqs :
        /\ r # q
        /\ req[r].ep = "/xai/lime" /\ req[r].pc = "done" /\ resp[r].kind = "ok"
        /\ req[q].ep = "/xai/shap" /\ req[q].pc = "done" /\ resp[q].kind = "ok"
        /\ Len(calls[r]) = 2 /\ Len(calls[q]) = 2

\* C4: a failed load_saved_model is not recovered.  The request whose load
\* raised never calls the explainer, gets no success body and ends with that
\* exception unhandled; every other explainability request still makes its own
\* load.
C4_LoadFailureFatal ==
    \A r \in Reqs :
        req[r].ep \in {"/xai/lime", "/xai/shap"} =>
            /\ req[r].pc \notin {"idle", "entry"} =>
                    (calls[r] # <<>> /\ calls[r][1].fn = "load_saved_model")
            /\ (calls[r] # <<>> /\ calls[r][1].out.raised) =>
                    /\ Len(calls[r]) = 1
                    /\ req[r].pc = "done"
                    /\ resp[r].kind = "unhandled"
                    /\ resp[r].status = 500
                    /\ resp[r].exc = calls[r][1].out.val

C4_Witness ==
    \E r, q \in Reqs :
        /\ req[r].ep = "/xai/shap" /\ req[r].pc = "done"
        /\ calls[r] # <<>> /\ calls[r][1].out = Raised("FileNotFoundError")
        /\ req[q].ep = "/xai/shap" /\ req[q].pc = "done"
        /\ Len(calls[q]) = 2 /\ resp[q].kind = "ok"

\* C5: /summarize-and-vectorize calls summarize_and_vectorize exactly once; if
\* the call raised, the request ends with that exception and no body; if it
\* returned, the response body is the object it returned.
C5_PipelinePassThrough ==
    \A r \in Reqs :
        (req[r].ep = "/summarize-and-vectorize" /\ req[r].pc = "done") =>
            /\ Len(calls[r]) = 1
            /\ calls[r][1].fn = "summarize_and_vectorize"
            /\ IF calls[r][1].out.raised
               THEN /\ resp[r].kind = "unhandled"
                    /\ resp[r].exc = calls[r][1].out.val
                    /\ "body" \notin DOMAIN resp[r]
               ELSE /\ resp[r].kind = "ok"
                    /\ resp[r].body = calls[r][1].out.val

C5_Witness ==
    \E r, q \in Reqs :
        /\ req[r].ep = "/summarize-and-vectorize" /\ req[r].pc = "done"
        /\ calls[r][1].out = Raised("ValueError")
        /\ req[q].ep = "/summarize-and-vectorize" /\ req[q].pc = "done"
        /\ resp[q].kind = "ok" /\ resp[q].body.summary = Str(<<"b">>)

\* The response a request to ep gets when it runs alone and its library calls
\* have the outcomes outs, in order.
Alone(ep, outs) ==
    IF ep = "/" THEN Ok([message |-> "Text Processing API is running"])
    ELSE IF outs[1].raised THEN Unhandled(outs[1].val)
    ELSE IF ep \in {"/xai/lime", "/xai/shap"} /\ outs[2].raised THEN Unhandled(outs[2].val)
    ELSE CASE ep = "/preprocess" -> Ok([cleaned_text |-> outs[1].val])
           [] ep = "/summarize/lsa" ->
                IF outs[1].val \in {NoneV, Str(<<>>)}
                THEN HTTPException(400, "LSA summarization failed.")
                ELSE Ok([lsa_summary |-> outs[1].val])
           [] ep = "/summarize/llm" ->
                IF outs[1].val \in {NoneV, Str(<<>>)}
                THEN HTTPException(400, "LLM summarization failed.")
                ELSE Ok([llm_summary |-> outs[1].val])
           [] ep = "/vectorize/tfidf" ->
                LET m == outs[1].val.tuple[1]
                IN Ok([tfidf_vector |->
                        [j \in 1..m.shape[2] |-> IF j \in DOMAIN m.nz THEN m.nz[j] ELSE 0]])
           [] ep = "/vectorize/bert" -> Ok([bert_vector |-> outs[1].val.tuple[1].list[1]])
           [] ep = "/summarize-and-vectorize" -> Ok(outs[1].val)
           [] ep = "/xai/lime" -> Ok([lime_explanation |-> outs[2].val.list])
           [] ep = "/xai/shap" ->
                IF outs[2].val = NoneV THEN HTTPException(500, "SHAP explanation failed.")
                ELSE LET e == outs[2].val
                         cols == e.values.shape[2]
                     IN Ok([shap_values |-> <<[j \in 1..cols |-> e.values.flat[j]]>>,
                            base_values |-> <<e.base_values.flat[1]>>,
                            data |-> <<[j \in 1..cols |-> e.data.flat[j]]>>])

\* C6: requests are independent.  The module-level namespace is never written,
\* and under every interleaving the response of a request is the one it gets
\* when run alone with the same text and the same outcomes of its library
\* calls.
C6_Independent ==
    /\ locals[0] = NoLocals
    /\ \A r \in Reqs :
        req[r].pc = "done" =>
            resp[r] = Alone(req[r].ep, [i \in DOMAIN calls[r] |-> calls[r][i].out])

C6_Witness ==
    \E r, q \in Reqs :
        /\ req[r].ep = "/summarize/lsa" /\ req[r].pc = "done"
        /\ req[q].ep = "/summarize/llm" /\ req[q].pc = "ret"
        /\ calls[r][1].out = Returned(Str(<<"a">>))
        /\ calls[q][1].out = Returned(NoneV)
        /\ resp[r].kind = "ok"

C8_ClosedTaxonomy ==
    \A r \in Reqs :
        /\ resp[r].kind = "http" =>
            \/ resp[r].status = 400 /\ req[r].ep \in {"/summarize/lsa", "/summarize/llm"}
            \/ resp[r].status = 500 /\ req[r].ep = "/xai/shap"
        /\ \A i \in DOMAIN calls[r] :
            /\ calls[r][i].out.raised =>
                /\ i = Len(calls[r])
                /\ req[r].pc = "done"
                /\ resp[r] = [kind |-> "unhandled", status |-> 500, exc |-> calls[r][i].out.val]
            /\ \A j \in DOMAIN calls[r] : calls[r][j].fn = calls[r][i].fn => j = i

C8_Witness ==
    \E r, q \in Reqs :
        /\ req[r].ep = "/preprocess" /\ req[r].pc = "done"
        /\ calls[r][1].out = Raised("RuntimeError") /\ resp[r].kind = "unhandled"
        /\ req[q].ep = "/xai/lime" /\ req[q].pc = "done"
        /\ Len(calls[q]) = 2 /\ calls[q][2].out = Raised("ValueError")
        /\ resp[q].kind = "unhandled"

\* C9: a successful /xai/shap response has exactly the fields shap_values,
\* base_values and data, and the three sequences have the same outer length.
C9_ShapBodyShape ==
    \A r \in Reqs :
        (req[r].ep = "/xai/shap" /\ req[r].pc = "done" /\ resp[r].kind = "ok") =>
            /\ DOMAIN resp[r].body = {"shap_values", "base_values", "data"}
            /\ Len(resp[r].body.shap_values) = Len(resp[r].body.base_values)
            /\ Len(resp[r].body.base_values) = Len(resp[r].body.data)

C9_Witness ==
    \E r \in Reqs :
        /\ req[r].ep = "/xai/shap" /\ req[r].pc = "done" /\ resp[r].kind = "ok"
        /\ req[r].text = <<"b">>
        /\ resp[r].body.data = <<<<0, 1>>>>
        /\ Len(resp[r].body.shap_values) = 1

\* C10: no timeout and no cancellation.  A request has a response only once its
\* handler is over and none of its library calls is outstanding; a response,
\* once produced, is never replaced; and when every call eventually returns or
\* raises, every request that arrived eventually has its response.
C10_BlocksUntilReturn ==
    /\ [](\A r \in Reqs :
            resp[r] # NoResp =>
                /\ req[r].pc = "done"
                /\ \A i \in DOMAIN calls[r] : calls[r][i].out # Pending)
    /\ [][\A r \in Reqs : resp[r] # NoResp => resp'[r] = resp[r]]_vars
    /\ \A r \in Reqs : (req[r].pc # "idle") ~> (resp[r] # NoResp)

C10_Witness ==
    \E r, q \in Reqs :
        /\ req[r].ep = "/summarize/llm" /\ req[r].pc = "call"
        /\ calls[r][1].out = Pending /\ resp[r] = NoResp
        /\ req[q].ep = "/summarize-and-vectorize" /\ req[q].pc = "done"
        /\ resp[q].kind = "ok"

====
